---- MODULE Spec2Model ----
(***************************************************************************)
(* The sentiment dashboard (deployment.py) and the forecast script         *)
(* (plot_sentiment.py) as state machines.                                  *)
(*                                                                         *)
(* Conventions.                                                            *)
(*   - A score is an integer number of thousandths (0.05 is 50, -0.5 is    *)
(*     -500); a mean is the exact pair <<sum, count>>.                     *)
(*   - A nullable cell is a sequence of length 0 (NaN / NaT) or 1.         *)
(*   - A timestamp is [day, hour]; day counts the days of January 2024.    *)
(*   - A text is a sequence of one-character strings.                      *)
(*   - A source is the rank of its name in lexicographic order.            *)
(***************************************************************************)
EXTENDS Integers, Sequences, FiniteSets, TLC

VARIABLES
    csv,        \* aggregated_data.csv: [exists, rows], rows as read_csv reads them
    cache,      \* st.cache_data's entry for load_data(CSV_FILE): [hit, df]
    df,         \* the table the current run got from load_data
    widgets,    \* the sidebar's values in the current run
    fdf,        \* the filtered, sorted view
    kpi,        \* the KPI row
    src,        \* "Sentiment by Source"
    page,       \* what the last run rendered: "none", "nodata", "rendered"
    runs,       \* dashboard runs so far
    reads,      \* executions of load_data's body since the cache was last cleared
    lastRead,   \* the last run executed load_data's body
    seen,       \* the file as it was when the last run called load_data
    x,          \* sentiment_label's argument
    lbl,        \* sentiment_label's result
    daily,      \* plot_sentiment.py: the daily aggregate
    forecast,   \* plot_sentiment.py: the ds column of the forecast
    outcome,    \* plot_sentiment.py: how the script ended
    pc          \* position of the operation under study

vars == <<csv, cache, df, widgets, fdf, kpi, src, page, runs, reads, lastRead,
          seen, x, lbl, daily, forecast, outcome, pc>>

runVars == <<cache, df, widgets, fdf, kpi, src, page, runs, reads, lastRead, seen>>
labelVars == <<x, lbl>>
scriptVars == <<daily, forecast, outcome>>

(***************************************************************************)
(* Bounds of the model.                                                    *)
(***************************************************************************)
MaxRows == 2
MaxLoadRows == 3
MaxFilterRows == 2
MaxKpiRows == 4
MaxTopRows == 3
MaxFill == 9
MaxScriptRows == 3
MaxRuns == 3
MaxLabelInput == 100

(***************************************************************************)
(* Cells and conversions.                                                  *)
(***************************************************************************)
NaN == <<>>

isna(c) == c = NaN

\* pd.to_numeric(..., errors="coerce"): the number, or NaN for what is none.
to_numeric(tok) ==
    CASE tok = "0.6" -> <<600>>
      [] tok = "-0.6" -> <<-600>>
      [] tok = "0.5" -> <<500>>
      [] tok = "-0.5" -> <<-500>>
      [] tok = "0.1" -> <<100>>
      [] tok = "-0.1" -> <<-100>>
      [] tok = "0.05" -> <<50>>
      [] tok = "-0.05" -> <<-50>>
      [] tok = "0.049" -> <<49>>
      [] tok = "0.0" -> <<0>>
      [] OTHER -> NaN

\* pd.to_datetime(..., errors="coerce"): the timestamp, or NaT.
to_datetime(tok) ==
    CASE tok = "2024-01-01 09:00" -> <<[day |-> 1, hour |-> 9]>>
      [] tok = "2024-01-01 17:00" -> <<[day |-> 1, hour |-> 17]>>
      [] tok = "2024-01-02 09:00" -> <<[day |-> 2, hour |-> 9]>>
      [] tok = "2024-01-03" -> <<[day |-> 3, hour |-> 0]>>
      [] tok = "2024-01-04 09:00" -> <<[day |-> 4, hour |-> 9]>>
      [] OTHER -> NaN

\* Series.dt.date: the calendar date of a timestamp cell, NaT staying NaT.
dt_date(c) == IF isna(c) THEN NaN ELSE <<c[1].day>>

\* Total order of timestamps, as an integer.
TsKey(ts) == ts.day * 24 + ts.hour

lower_char(ch) ==
    CASE ch = "A" -> "a"
      [] ch = "B" -> "b"
      [] ch = "C" -> "c"
      [] OTHER -> ch

\* str.lower()
str_lower(s) == [i \in 1..Len(s) |-> lower_char(s[i])]

RECURSIVE str_strip(_)
\* str.strip(): leading and trailing blanks removed.
str_strip(s) ==
    IF s = <<>> THEN s
    ELSE IF Head(s) = " " THEN str_strip(Tail(s))
    ELSE IF s[Len(s)] = " " THEN str_strip(SubSeq(s, 1, Len(s) - 1))
    ELSE s

(***************************************************************************)
(* load_data.                                                              *)
(***************************************************************************)
NoFile == [exists |-> FALSE, rows |-> <<>>]

File(rows) == [exists |-> TRUE, rows |-> rows]

Miss == [hit |-> FALSE, df |-> <<>>]

\* DataFrame.dropna(subset=...), how="all": the variant a slip would give.
dropna_all(t, subset) ==
    SelectSeq(t, LAMBDA r : \E c \in subset : ~isna(r[c]))

\* DataFrame.dropna(subset=...): rows with a null in any column of subset go.
dropna(t, subset) ==
    SelectSeq(t, LAMBDA r : \A c \in subset : ~isna(r[c]))

\* The typed row load_data makes of row i of the file.
TypedRow(i, r) ==
    LET published == to_datetime(r.published)
    IN  [idx |-> i,
         source |-> r.source,
         published |-> published,
         scores |-> to_numeric(r.scores),
         date |-> dt_date(published),
         keyword_hint |-> str_lower(r.title_or_text)]

\* The body of load_data(path).
load_data(file) ==
    IF ~file.exists THEN <<>>
    ELSE dropna([i \in 1..Len(file.rows) |-> TypedRow(i, file.rows[i])],
                {"published", "scores"})

\* load_data with no memoization: the body runs on every call.
uncached_load_data(file, c) == [df |-> load_data(file), executed |-> TRUE]

\* @st.cache_data: the cached table on a hit, the body's result on a miss.
cached_load_data(file, c) ==
    IF c.hit THEN [df |-> c.df, executed |-> FALSE]
    ELSE [df |-> load_data(file), executed |-> TRUE]

\* The cache clear moved before the load: the variant a reordering would give.
run_table_clear_first(file, c, button) ==
    cached_load_data(file, IF button THEN Miss ELSE c)

\* The table a run works on: load_data is called (line 41) before the
\* "Refresh data" button is read (line 59), so the button plays no part.
run_table(file, c, button) == cached_load_data(file, c)

(***************************************************************************)
(* sentiment_label.                                                        *)
(***************************************************************************)
PosThreshold == 50
NegThreshold == -50

\* The label with the boundaries excluded: the variant a slip would give.
sentiment_label_strict(v) ==
    IF v > PosThreshold THEN "Positive"
    ELSE IF v < NegThreshold THEN "Negative"
    ELSE "Neutral"

sentiment_label(v) ==
    IF v >= PosThreshold THEN "Positive"
    ELSE IF v <= NegThreshold THEN "Negative"
    ELSE "Neutral"

(***************************************************************************)
(* Sorting: pandas' sort_values with its default kind="quicksort", which   *)
(* is not stable: the order of rows with equal keys is whatever the build  *)
(* of numpy gives, so every order of the ties is an outcome.               *)
(***************************************************************************)
RECURSIVE Perms(_)
\* Every ordering of the finite set S.
Perms(S) ==
    IF S = {} THEN {<<>>}
    ELSE UNION {{<<e>> \o p : p \in Perms(S \ {e})} : e \in S}

RECURSIVE SortOutcomes(_)
\* K is a set of pairs <<element, key>>: every sequence of the elements that
\* is non-decreasing in the key.
SortOutcomes(K) ==
    IF K = {} THEN {<<>>}
    ELSE LET m == CHOOSE v \in {e[2] : e \in K} : \A e \in K : v <= e[2]
             ties == {e \in K : e[2] = m}
         IN  {p \o rest : p \in Perms({e[1] : e \in ties}),
                          rest \in SortOutcomes(K \ ties)}

RECURSIVE SeqSum(_)
SeqSum(s) == IF s = <<>> THEN 0 ELSE Head(s) + SeqSum(Tail(s))

\* Series.head(n)
head(s, n) == SubSeq(s, 1, IF Len(s) < n THEN Len(s) ELSE n)

(***************************************************************************)
(* The sidebar and the filters.                                            *)
(***************************************************************************)
AlertHi == 500
AlertLo == -500

min_date(t) == CHOOSE d \in {t[i].published[1].day : i \in 1..Len(t)} :
                   \A i \in 1..Len(t) : d <= t[i].published[1].day

max_date(t) == CHOOSE d \in {t[i].published[1].day : i \in 1..Len(t)} :
                   \A i \in 1..Len(t) : d >= t[i].published[1].day

\* sorted(df["source"].dropna().unique()), as a set
source_options(t) == {t[i].source : i \in 1..Len(t)}

\* What st.date_input can return: a pair, or the start alone while the end
\* is not picked yet.
DateRanges(lo, hi) ==
    {r \in (lo..hi) \X (lo..hi) : r[1] <= r[2]} \cup {<<s>> : s \in lo..hi}

NoWidgets ==
    [date_range |-> <<>>, keyword |-> <<>>, sources |-> {},
     show_only_alerts |-> FALSE, refresh |-> FALSE]

\* The widgets' values on a page nobody touched yet.
DefaultWidgets(t) ==
    [date_range |-> <<min_date(t), max_date(t)>>, keyword |-> <<>>,
     sources |-> source_options(t), show_only_alerts |-> FALSE, refresh |-> FALSE]

\* Every value the sidebar can hand the script for table t, Typed being what
\* the user may type in the keyword box.
WidgetChoices(t, Typed) ==
    {[date_range |-> dr, keyword |-> str_lower(str_strip(k)), sources |-> s,
      show_only_alerts |-> a, refresh |-> b] :
        dr \in DateRanges(min_date(t), max_date(t)), k \in Typed,
        s \in SUBSET source_options(t), a \in BOOLEAN, b \in BOOLEAN}

\* w is a value the sidebar built for table t can hand the script.
ValidWidgets(t, w) ==
    /\ w.date_range \in DateRanges(min_date(t), max_date(t))
    /\ w.sources \subseteq source_options(t)

\* The pattern occurs in text as a literal substring.
str_contains_literal(text, pat) ==
    \E o \in 0..(Len(text) - Len(pat)) :
        \A j \in 1..Len(pat) : pat[j] = text[o + j]

\* Series.str.contains(pat): regex=True is the default, so pat is searched as
\* a regular expression: "." matches any character.
str_contains(text, pat) ==
    \E o \in 0..(Len(text) - Len(pat)) :
        \A j \in 1..Len(pat) : pat[j] = "." \/ pat[j] = text[o + j]

\* The positions of df the mask keeps.
mask(t, w) ==
    {i \in 1..Len(t) :
        /\ t[i].date[1] >= w.date_range[1]
        /\ t[i].date[1] <= w.date_range[Len(w.date_range)]
        /\ t[i].source \in w.sources
        /\ (w.keyword # <<>> => str_contains(t[i].keyword_hint, w.keyword))
        /\ (w.show_only_alerts =>
               (t[i].scores[1] <= AlertLo \/ t[i].scores[1] >= AlertHi))}

\* df.loc[mask].copy().sort_values("published"): every outcome of the sort.
ApplyFilters(t, w) ==
    LET keyed == {<<i, TsKey(t[i].published[1])>> : i \in mask(t, w)}
    IN  {[k \in 1..Len(p) |-> t[p[k]]] : p \in SortOutcomes(keyed)}

(***************************************************************************)
(* KPIs.                                                                   *)
(***************************************************************************)
NoKpi == [avg_score |-> NaN, pos_ratio |-> NaN, neg_alerts |-> 0, pos_alerts |-> 0]

\* The KPIs with the alert boundaries excluded: the variant a slip would give.
KPIs_strict(f) ==
    LET n == Len(f)
        scores == [i \in 1..n |-> f[i].scores[1]]
        count(P(_)) == SeqSum([i \in 1..n |-> IF P(scores[i]) THEN 1 ELSE 0])
    IN  [avg_score |-> IF n = 0 THEN NaN ELSE <<SeqSum(scores), n>>,
         pos_ratio |-> IF n = 0 THEN NaN
                       ELSE <<count(LAMBDA v : v >= PosThreshold), n>>,
         neg_alerts |-> count(LAMBDA v : v < AlertLo),
         pos_alerts |-> count(LAMBDA v : v > AlertHi)]

\* avg_score, pos_ratio, neg_alerts, pos_alerts; a mean is <<sum, count>>.
KPIs(f) ==
    LET n == Len(f)
        scores == [i \in 1..n |-> f[i].scores[1]]
        count(P(_)) == SeqSum([i \in 1..n |-> IF P(scores[i]) THEN 1 ELSE 0])
    IN  [avg_score |-> IF n = 0 THEN NaN ELSE <<SeqSum(scores), n>>,
         pos_ratio |-> IF n = 0 THEN NaN
                       ELSE <<count(LAMBDA v : v >= PosThreshold), n>>,
         neg_alerts |-> count(LAMBDA v : v <= AlertLo),
         pos_alerts |-> count(LAMBDA v : v >= AlertHi)]

(***************************************************************************)
(* Sentiment by source.                                                    *)
(***************************************************************************)
TopN == 10

\* fdf.groupby("source")["scores"].mean(): the groups, in ascending order of
\* the source (groupby sorts its keys), each with its mean.
GroupSum(f, s) ==
    SeqSum([i \in 1..Len(f) |-> IF f[i].source = s THEN f[i].scores[1] ELSE 0])

GroupCount(f, s) == SeqSum([i \in 1..Len(f) |-> IF f[i].source = s THEN 1 ELSE 0])

Groups(f) == {f[i].source : i \in 1..Len(f)}

RECURSIVE CountProduct(_, _)
\* The product of the group sizes: a common denominator of the means.
CountProduct(f, S) ==
    IF S = {} THEN 1
    ELSE LET s == CHOOSE e \in S : TRUE
         IN  GroupCount(f, s) * CountProduct(f, S \ {s})

\* The groups' rows: the source and its mean.
SourceRows(f) ==
    {[source |-> s, mean |-> <<GroupSum(f, s), GroupCount(f, s)>>] : s \in Groups(f)}

\* The mean of row r, scaled by the common denominator den: an integer.
MeanKey(r, den) == r.mean[1] * (den \div r.mean[2])

\* The source table with the sort ascending: the variant a slip would give.
top_sources_ascending(f) ==
    LET den == CountProduct(f, Groups(f))
        keyed == {<<r, MeanKey(r, den)>> : r \in SourceRows(f)}
    IN  {head(p, TopN) : p \in SortOutcomes(keyed)}

\* .mean().sort_values(ascending=False).head(10): every outcome of the sort.
top_sources(f) ==
    LET den == CountProduct(f, Groups(f))
        keyed == {<<r, 0 - MeanKey(r, den)>> : r \in SourceRows(f)}
    IN  {head(p, TopN) : p \in SortOutcomes(keyed)}

(***************************************************************************)
(* plot_sentiment.py.                                                      *)
(***************************************************************************)
Horizon == 7

\* The rows left by lines 9-13: saved_at and scores converted, nulls dropped.
script_rows(rows) ==
    dropna([i \in 1..Len(rows) |->
               [saved_at |-> to_datetime(rows[i].saved_at),
                scores |-> to_numeric(rows[i].scores)]],
           {"saved_at", "scores"})

\* df.groupby(df["saved_at"].dt.date)["scores"].mean().reset_index(): one row
\* per date present, in ascending order of the date.
daily_aggregate(rows) ==
    LET t == script_rows(rows)
        dates == {t[i].saved_at[1].day : i \in 1..Len(t)}
        order == CHOOSE p \in SortOutcomes({<<d, d>> : d \in dates}) : TRUE
        sum(d) == SeqSum([i \in 1..Len(t) |->
                             IF t[i].saved_at[1].day = d THEN t[i].scores[1] ELSE 0])
        cnt(d) == SeqSum([i \in 1..Len(t) |->
                             IF t[i].saved_at[1].day = d THEN 1 ELSE 0])
    IN  [k \in 1..Len(order) |-> [ds |-> order[k], y |-> <<sum(order[k]), cnt(order[k])>>]]

\* Prophet.fit refuses a history of fewer than 2 rows with a ValueError.
fit_raises(history) == Len(history) < 2

\* The future frame starting at the last date: the variant an off-by-one gives.
make_future_dataframe_from_last(history, periods) ==
    LET last == history[Len(history)].ds
    IN  [k \in 1..Len(history) |-> history[k].ds] \o [k \in 1..periods |-> last + k - 1]

\* Prophet.make_future_dataframe(periods): the history's own dates, then the
\* periods days after the last of them.
make_future_dataframe(history, periods) ==
    LET last == history[Len(history)].ds
    IN  [k \in 1..Len(history) |-> history[k].ds] \o [k \in 1..periods |-> last + k]

\* Prophet.predict(future): one row per date of future; only ds is modelled.
predict(future) == future

(***************************************************************************)
(* Inputs.                                                                 *)
(***************************************************************************)
\* Every sequence over R of length at most n.
Tables(R, n) == UNION {[1..k -> R] : k \in 0..n}

RawRow(s, p, v, t, a) ==
    [source |-> s, published |-> p, scores |-> v, title_or_text |-> t, saved_at |-> a]

DashRows ==
    {RawRow(1, "2024-01-01 09:00", "0.6", <<"a">>, "2024-01-01 09:00"),
     RawRow(1, "2024-01-01 17:00", "0.6", <<"a">>, "2024-01-01 09:00"),
     RawRow(1, "2024-01-01 09:00", "abc", <<"a">>, "2024-01-01 09:00")}

DashTyped == {<<>>, <<"A", " ">>}

LoadRows ==
    {RawRow(1, p, v, <<"A", "b">>, "2024-01-01 09:00") :
        p \in {"2024-01-01 09:00", "2024-01-03", "not a date", ""},
        v \in {"0.6", "-0.05", "abc", ""}}

FilterRows ==
    {RawRow(s, p, v, t, "2024-01-01 09:00") :
        s \in {1, 2}, p \in {"2024-01-01 09:00", "2024-01-02 09:00"},
        v \in {"0.5", "-0.1"}, t \in {<<"a", "B", "c">>, <<"a", ".", "c">>, <<>>}}

FilterTyped == {<<>>, <<" ", "B", " ">>, <<".">>, <<"a", ".", "c">>}

ScriptRows ==
    {RawRow(1, "2024-01-01 09:00", v, <<"a">>, a) :
        v \in {"0.6", "-0.1", "abc"},
        a \in {"2024-01-01 09:00", "2024-01-01 17:00", "2024-01-02 09:00",
               "2024-01-04 09:00", "not a date"}}

\* A row of a filtered view, as load_data types it.
Item(i, s, ts, v) ==
    [idx |-> i, source |-> s, published |-> <<ts>>, scores |-> <<v>>,
     date |-> <<ts.day>>, keyword_hint |-> <<>>]

KpiScores == {600, -600, 100, -100, 500, -500, 50}

\* Views for the KPIs: every sequence of scores, all of one source and time.
KpiViews ==
    {[i \in 1..Len(t) |-> Item(i, 1, [day |-> 1, hour |-> 9], t[i])] :
        t \in Tables(KpiScores, MaxKpiRows)}

\* Views for the source table: at most MaxTopRows rows over three sources,
\* then one row for each of n further sources, in order of time.
TopViews ==
    {[i \in 1..(Len(t) + n) |->
         IF i <= Len(t)
         THEN Item(i, t[i][1], [day |-> i, hour |-> 0], t[i][2])
         ELSE Item(i, 3 + i - Len(t), [day |-> i, hour |-> 0], 200 + 10 * (i - Len(t)))] :
        t \in Tables({1, 2, 3} \X {100, 600}, MaxTopRows), n \in 0..MaxFill}

(***************************************************************************)
(* The state before anything ran, with the input under study in place.     *)
(***************************************************************************)
InitWith(file, c, table, w, view, arg, at) ==
    /\ csv = file
    /\ cache = c
    /\ df = table
    /\ widgets = w
    /\ fdf = view
    /\ kpi = NoKpi
    /\ src = <<>>
    /\ page = "none"
    /\ runs = 0
    /\ reads = 0
    /\ lastRead = FALSE
    /\ seen = NoFile
    /\ x = arg
    /\ lbl = ""
    /\ daily = <<>>
    /\ forecast = <<>>
    /\ outcome = "running"
    /\ pc = at

(***************************************************************************)
(* The dashboard: one action per run of the script, one for the collector  *)
(* that writes aggregated_data.csv.                                        *)
(***************************************************************************)
Init ==
    \E file \in {NoFile} \cup {File(t) : t \in Tables(DashRows, MaxRows)} :
        InitWith(file, Miss, <<>>, NoWidgets, <<>>, 0, "dash")

\* The collector creates the file or appends a row to it.
CollectorAppends(r) ==
    /\ Len(csv.rows) < MaxRows
    /\ csv' = File(Append(csv.rows, r))
    /\ UNCHANGED <<runVars, labelVars, scriptVars, pc>>

\* One run of deployment.py, top to bottom, with the sidebar's values w.
Run(w) ==
    /\ runs < MaxRuns
    /\ LET got == run_table(csv, cache, w.refresh)
           t == got.df
           loaded == [hit |-> TRUE, df |-> t]
           n == reads + (IF got.executed THEN 1 ELSE 0)
       IN  /\ df' = t
           /\ lastRead' = got.executed
           /\ seen' = csv
           /\ runs' = runs + 1
           /\ IF t = <<>>
              THEN \* st.stop(): nothing below line 45 runs, the button included.
                   /\ w = NoWidgets
                   /\ cache' = loaded
                   /\ reads' = n
                   /\ widgets' = NoWidgets
                   /\ fdf' = <<>>
                   /\ kpi' = NoKpi
                   /\ src' = <<>>
                   /\ page' = "nodata"
              ELSE /\ ValidWidgets(t, w)
                   \* a page with no sidebar yet gives the defaults
                   /\ page # "rendered" => w = DefaultWidgets(t)
                   /\ widgets' = w
                   /\ cache' = IF w.refresh THEN Miss ELSE loaded
                   /\ reads' = IF w.refresh THEN 0 ELSE n
                   /\ \E f \in ApplyFilters(t, w) :
                         /\ fdf' = f
                         /\ kpi' = KPIs(f)
                         /\ \E top \in top_sources(f) : src' = top
                   /\ page' = "rendered"
    /\ UNCHANGED <<csv, labelVars, scriptVars, pc>>

\* The values a run can be started with.
RunInputs ==
    LET tables == {load_data(csv)} \cup (IF cache.hit THEN {cache.df} ELSE {})
    IN  {NoWidgets} \cup UNION {WidgetChoices(t, DashTyped) : t \in (tables \ {<<>>})}

Next ==
    \/ \E r \in DashRows : CollectorAppends(r)
    \/ \E w \in RunInputs : Run(w)

Spec == Init /\ [][Next]_vars

(***************************************************************************)
(* load_data on its own.                                                   *)
(***************************************************************************)
InitLoad ==
    \E file \in {NoFile} \cup {File(t) : t \in Tables(LoadRows, MaxLoadRows)} :
        InitWith(file, Miss, <<>>, NoWidgets, <<>>, 0, "input")

LoadStep ==
    /\ pc = "input"
    /\ LET got == cached_load_data(csv, cache)
       IN  /\ df' = got.df
           /\ cache' = [hit |-> TRUE, df |-> got.df]
           /\ reads' = reads + (IF got.executed THEN 1 ELSE 0)
           /\ lastRead' = got.executed
    /\ seen' = csv
    /\ pc' = "done"
    /\ UNCHANGED <<csv, widgets, fdf, kpi, src, page, runs, labelVars, scriptVars>>

NextLoad == LoadStep

SpecLoad == InitLoad /\ [][NextLoad]_vars

(***************************************************************************)
(* The filters on their own.                                               *)
(***************************************************************************)
InitFilter ==
    \E rows \in Tables(FilterRows, MaxFilterRows) :
        LET t == load_data(File(rows))
        IN  /\ t # <<>>
            /\ \E w \in WidgetChoices(t, FilterTyped) :
                  /\ ~w.refresh
                  /\ InitWith(File(rows), [hit |-> TRUE, df |-> t], t, w, <<>>, 0, "input")

FilterStep ==
    /\ pc = "input"
    /\ \E f \in ApplyFilters(df, widgets) : fdf' = f
    /\ pc' = "done"
    /\ UNCHANGED <<csv, cache, df, widgets, kpi, src, page, runs, reads, lastRead,
                   seen, labelVars, scriptVars>>

NextFilter == FilterStep

SpecFilter == InitFilter /\ [][NextFilter]_vars

(***************************************************************************)
(* The KPIs on their own.                                                  *)
(***************************************************************************)
InitKpi ==
    \E f \in KpiViews : InitWith(NoFile, Miss, <<>>, NoWidgets, f, 0, "input")

KpiStep ==
    /\ pc = "input"
    /\ kpi' = KPIs(fdf)
    /\ pc' = "done"
    /\ UNCHANGED <<csv, cache, df, widgets, fdf, src, page, runs, reads, lastRead,
                   seen, labelVars, scriptVars>>

NextKpi == KpiStep

SpecKpi == InitKpi /\ [][NextKpi]_vars

(***************************************************************************)
(* The source table on its own.                                            *)
(***************************************************************************)
InitTop ==
    \E f \in TopViews : InitWith(NoFile, Miss, <<>>, NoWidgets, f, 0, "input")

TopStep ==
    /\ pc = "input"
    /\ \E top \in top_sources(fdf) : src' = top
    /\ pc' = "done"
    /\ UNCHANGED <<csv, cache, df, widgets, fdf, kpi, page, runs, reads, lastRead,
                   seen, labelVars, scriptVars>>

NextTop == TopStep

SpecTop == InitTop /\ [][NextTop]_vars

(***************************************************************************)
(* sentiment_label on its own.                                             *)
(***************************************************************************)
InitLabel ==
    \E v \in (0 - MaxLabelInput)..MaxLabelInput :
        InitWith(NoFile, Miss, <<>>, NoWidgets, <<>>, v, "input")

LabelStep ==
    /\ pc = "input"
    /\ lbl' = sentiment_label(x)
    /\ pc' = "done"
    /\ UNCHANGED <<csv, runVars, x, scriptVars>>

NextLabel == LabelStep

SpecLabel == InitLabel /\ [][NextLabel]_vars

(***************************************************************************)
(* plot_sentiment.py, statement by statement.  The script catches nothing: *)
(* an exception ends it with a traceback.                                  *)
(***************************************************************************)
InitScript ==
    \E file \in {NoFile} \cup {File(t) : t \in Tables(ScriptRows, MaxScriptRows)} :
        InitWith(file, Miss, <<>>, NoWidgets, <<>>, 0, "start")

\* Lines 6-20: read, convert, drop, group.
Aggregate ==
    /\ pc = "start"
    /\ IF ~csv.exists
       THEN /\ outcome' = "unhandled FileNotFoundError"
            /\ pc' = "crashed"
            /\ UNCHANGED daily
       ELSE /\ daily' = daily_aggregate(csv.rows)
            /\ pc' = "fit"
            /\ UNCHANGED outcome
    /\ UNCHANGED <<csv, runVars, labelVars, forecast>>

\* Lines 23-24: Prophet().fit(daily).
Fit ==
    /\ pc = "fit"
    /\ IF fit_raises(daily)
       THEN /\ outcome' = "unhandled ValueError"
            /\ pc' = "crashed"
       ELSE /\ pc' = "predict"
            /\ UNCHANGED outcome
    /\ UNCHANGED <<csv, runVars, labelVars, daily, forecast>>

\* Lines 27-74: the future frame, the forecast, the figure.
Predict ==
    /\ pc = "predict"
    /\ forecast' = predict(make_future_dataframe(daily, Horizon))
    /\ outcome' = "shown"
    /\ pc' = "done"
    /\ UNCHANGED <<csv, runVars, labelVars, daily>>

NextScript == Aggregate \/ Fit \/ Predict

SpecScript == InitScript /\ [][NextScript]_vars

(***************************************************************************)
(* Properties.                                                             *)
(***************************************************************************)
Finished == pc \in {"done", "crashed"}

\* The rows of the file whose published and scores both parse.
ParseableRows ==
    {i \in 1..Len(csv.rows) :
        /\ ~isna(to_datetime(csv.rows[i].published))
        /\ ~isna(to_numeric(csv.rows[i].scores))}

\* C1: load_data returns exactly the rows of the file whose published parses
\* as a timestamp and whose scores parses as a number, each once and in the
\* file's order; every other row is absent, no row is added, and the output
\* is no longer than the input.
C1_LoadKeepsExactlyParseableRows ==
    pc = "done" =>
        /\ {df[k].idx : k \in 1..Len(df)} = ParseableRows
        /\ \A j, k \in 1..Len(df) : j < k => df[j].idx < df[k].idx
        /\ Len(df) <= Len(csv.rows)
        /\ \A k \in 1..Len(df) :
              /\ df[k].published = to_datetime(csv.rows[df[k].idx].published)
              /\ df[k].scores = to_numeric(csv.rows[df[k].idx].scores)

\* A file of three rows or more of which load_data kept one, having dropped a
\* row for its scores alone and another for its published alone.
C1_Witness ==
    /\ pc = "done"
    /\ Len(csv.rows) >= 3
    /\ Len(df) = 1
    /\ \E i \in 1..Len(csv.rows) :
          /\ isna(to_numeric(csv.rows[i].scores))
          /\ ~isna(to_datetime(csv.rows[i].published))
    /\ \E i \in 1..Len(csv.rows) :
          /\ ~isna(to_numeric(csv.rows[i].scores))
          /\ isna(to_datetime(csv.rows[i].published))

\* C2: the filtered view holds exactly the items with start <= date <= end,
\* source among the selected sources, keyword empty or a literal substring of
\* keyword_hint, and, with alerts_only set, |scores| >= 0.5.
C2_FilterIsLiteralConjunction ==
    (pc = "done" /\ Len(widgets.date_range) = 2) =>
        LET want == {i \in 1..Len(df) :
                        /\ widgets.date_range[1] <= df[i].date[1]
                        /\ df[i].date[1] <= widgets.date_range[2]
                        /\ df[i].source \in widgets.sources
                        /\ \/ widgets.keyword = <<>>
                           \/ str_contains_literal(df[i].keyword_hint, widgets.keyword)
                        /\ widgets.show_only_alerts =>
                              (df[i].scores[1] >= 500 \/ 0 - df[i].scores[1] >= 500)}
        IN  /\ {fdf[k].idx : k \in 1..Len(fdf)} = {df[i].idx : i \in want}
            /\ Len(fdf) = Cardinality(want)

\* The dates of the daily aggregate the forecaster is given, read off the file.
ObservedDates ==
    {to_datetime(csv.rows[i].saved_at)[1].day :
        i \in {j \in 1..Len(csv.rows) :
                  /\ ~isna(to_datetime(csv.rows[j].saved_at))
                  /\ ~isna(to_numeric(csv.rows[j].scores))}}

SetMax(S) == CHOOSE m \in S : \A e \in S : e <= m

SetMin(S) == CHOOSE m \in S : \A e \in S : m <= e

ForecastDates == {forecast[k] : k \in 1..Len(forecast)}

\* C3: given fewer than 2 distinct dates the forecaster ends with an explicit
\* insufficient-history result: no forecast, and no unhandled error.
C3_InsufficientHistoryIsExplicit ==
    (Finished /\ csv.exists /\ Cardinality(ObservedDates) < 2) =>
        /\ outcome \notin {"unhandled ValueError", "unhandled FileNotFoundError"}
        /\ outcome # "shown"
        /\ forecast = <<>>

\* C4 as stated: given 2 distinct dates or more, the dates of the forecast are
\* every calendar date from the first observed date to the last plus 7.
C4_ForecastCoversEveryCalendarDate ==
    (Finished /\ Cardinality(ObservedDates) >= 2) =>
        /\ outcome = "shown"
        /\ ForecastDates = SetMin(ObservedDates)..(SetMax(ObservedDates) + 7)

\* C4 as amended: given 2 distinct dates or more, the dates of the forecast
\* are exactly the observed dates and the 7 dates after the last observed
\* one, each once; the dates after the last observed one are exactly
\* (last, last + 7].
C4_ForecastCoversObservedAndHorizon ==
    (Finished /\ Cardinality(ObservedDates) >= 2) =>
        LET last == SetMax(ObservedDates)
        IN  /\ outcome = "shown"
            /\ ForecastDates = ObservedDates \cup ((last + 1)..(last + 7))
            /\ {d \in ForecastDates : d > last} = (last + 1)..(last + 7)
            /\ Len(forecast) = Cardinality(ForecastDates)

\* A forecast made from a history with a day missing inside its span.
C4_Witness ==
    /\ pc = "done"
    /\ outcome = "shown"
    /\ \E d \in SetMin(ObservedDates)..SetMax(ObservedDates) :
          d \notin ObservedDates /\ d \notin ForecastDates

\* a >= b for means <<sum, count>>
MeanGe(a, b) == a[1] * b[2] >= b[1] * a[2]

FirstPos(f, s) == CHOOSE i \in 1..Len(f) : f[i].source = s /\ \A j \in 1..(i - 1) : f[j].source # s

\* C5 as amended: the source table has at most 10 entries, is sorted
\* non-increasing by mean score, and holds every source when there are fewer
\* than 10; nothing is promised about the order of sources with equal means.
C5_TopSourcesSortedAndCapped ==
    pc = "done" =>
        /\ Len(src) <= 10
        /\ \A j, k \in 1..Len(src) : j < k => MeanGe(src[j].mean, src[k].mean)
        /\ Cardinality(Groups(fdf)) < 10 =>
              /\ {src[k].source : k \in 1..Len(src)} = Groups(fdf)
              /\ Len(src) = Cardinality(Groups(fdf))

\* C5 as stated: the same, and sources with equal means stand in the order in
\* which they first appear in the input.
C5_TopSourcesTiesKeepInputOrder ==
    pc = "done" =>
        /\ C5_TopSourcesSortedAndCapped
        /\ \A j, k \in 1..Len(src) :
              (j < k /\ MeanGe(src[j].mean, src[k].mean) /\ MeanGe(src[k].mean, src[j].mean))
                  => FirstPos(fdf, src[j].source) < FirstPos(fdf, src[k].source)

\* More than 10 sources cut to 10, with two of equal mean among them.
C5_Witness ==
    /\ pc = "done"
    /\ Cardinality(Groups(fdf)) > 10
    /\ Len(src) = 10
    /\ \E j, k \in 1..Len(src) : j < k /\ src[j].mean = src[k].mean

\* C6: with no refresh in between, load_data's body runs at most once however
\* many runs there are; a run that finds the table cached does not read; the
\* first run after a refresh reads again.
C6_LoadMemoizedUntilRefresh ==
    [][/\ reads' <= 1
       /\ (runs' # runs /\ cache.hit) => ~lastRead'
       /\ (runs' # runs /\ widgets.refresh) => lastRead']_vars

\* A third run that read the file: the first run read it, the second found it
\* cached and pressed "Refresh data".
C6_Witness == runs = 3 /\ lastRead /\ reads = 1 /\ page = "rendered"

\* C7: neg_alerts counts the scores <= -0.5, pos_alerts the scores >= 0.5,
\* pos_ratio is the fraction of scores >= 0.05; scores 0.6, -0.6, 0.1, -0.1
\* give 1, 1 and 0.5.
C7_AlertCountsAndRatio ==
    pc = "done" =>
        LET n == Len(fdf)
            v(i) == fdf[i].scores[1]
        IN  /\ kpi.neg_alerts = Cardinality({i \in 1..n : v(i) <= -500})
            /\ kpi.pos_alerts = Cardinality({i \in 1..n : v(i) >= 500})
            /\ n > 0 => kpi.pos_ratio = <<Cardinality({i \in 1..n : v(i) >= 50}), n>>
            /\ [i \in 1..n |-> v(i)] = <<600, -600, 100, -100>> =>
                  /\ kpi.pos_alerts = 1
                  /\ kpi.neg_alerts = 1
                  /\ 2 * kpi.pos_ratio[1] = kpi.pos_ratio[2]

\* Scores 0.5, -0.5, 0.1, -0.1: both boundaries counted.
C7_Witness ==
    /\ pc = "done"
    /\ [i \in 1..Len(fdf) |-> fdf[i].scores[1]] = <<500, -500, 100, -100>>
    /\ kpi.pos_alerts = 1
    /\ kpi.neg_alerts = 1

\* C8: sentiment_label gives Positive exactly for scores >= 0.05, Negative
\* exactly for scores <= -0.05 and Neutral exactly for the scores strictly
\* between.
C8_LabelThresholds ==
    pc = "done" =>
        /\ lbl \in {"Positive", "Negative", "Neutral"}
        /\ lbl = "Positive" <=> x >= 50
        /\ lbl = "Negative" <=> x <= -50
        /\ lbl = "Neutral" <=> (-50 < x /\ x < 50)

\* The boundary 0.05 labelled Positive.
C8_Witness == pc = "done" /\ x = 50 /\ lbl = "Positive"

\* C10: the run in which "Refresh data" is pressed works on the table
\* load_data gave before the cache was cleared, the cached one if there was
\* one, and leaves the cache empty; the run after it works on the file as it
\* then is.
C10_RefreshRunShowsCachedTable ==
    [][/\ (runs' # runs /\ page' = "rendered" /\ widgets'.refresh) =>
             /\ df' = IF cache.hit THEN cache.df ELSE load_data(csv)
             /\ fdf' \in ApplyFilters(df', widgets')
             /\ kpi' = KPIs(fdf')
             /\ src' \in top_sources(fdf')
             /\ cache' = Miss
       /\ (runs' # runs /\ widgets.refresh) => df' = load_data(csv)]_vars

\* A run with "Refresh data" pressed that showed the cached table although
\* the file it was started on gave another.
C10_Witness ==
    /\ page = "rendered"
    /\ widgets.refresh
    /\ ~lastRead
    /\ df # load_data(seen)
    /\ cache = Miss

====
